---- MODULE Spec2Model ----
(***************************************************************************)
(* Model of the multi-endpoint result reconciliation of graphql-mesh:      *)
(*   packages/transports/rest/src/directives/mergeResults.ts               *)
(*     (mergeResults, mergeArrayResults, mergeObjectResults, deepMerge,    *)
(*      validateResultCompatibility)                                       *)
(* JavaScript values live on a heap: objects and arrays are cells reached  *)
(* through references, so aliasing and in-place mutation are visible.      *)
(* Objects are modelled as unordered maps (property insertion order is     *)
(* not represented).                                                       *)
(***************************************************************************)
EXTENDS Integers, Sequences, FiniteSets, TLC

(***************************************************************************)
(* Bounds of the model.                                                    *)
(***************************************************************************)
MaxPayloads == 3
MaxArrays == 2
MaxItems == 3
MaxTargets == 3
MaxEndpoints == 3
MaxDeadline == 2

VARIABLES payloads, heap, resultList, call, ret,
          selector, outcomes, dFieldType, dpc, targets, status, rejectedBy,
          issued, dret, prev, deadline, timer, now,
          loaderOptions, baseSchema, lpc, schema

mergeVars == <<payloads, heap, resultList, call, ret>>

dispatchVars ==
  <<selector, outcomes, dFieldType, dpc, targets, status, rejectedBy, issued, dret, prev,
    deadline, timer, now>>

loaderVars == <<loaderOptions, baseSchema, lpc, schema>>

vars == <<mergeVars, dispatchVars, loaderVars>>

(***************************************************************************)
(* Input payloads as decoded JSON trees.  Every tree is a record of the    *)
(* same shape: k kind, t scalar type, v scalar value, f fields, e elems.   *)
(***************************************************************************)
NoFields == [x \in {} |-> 0]

NullT == [k |-> "null", t |-> "", v |-> 0, f |-> NoFields, e |-> <<>>]

Num(n) == [k |-> "scalar", t |-> "number", v |-> n, f |-> NoFields, e |-> <<>>]

Str(n) == [k |-> "scalar", t |-> "string", v |-> n, f |-> NoFields, e |-> <<>>]

Obj(fields) == [k |-> "object", t |-> "", v |-> 0, f |-> fields, e |-> <<>>]

Arr(elems) == [k |-> "array", t |-> "", v |-> 0, f |-> NoFields, e |-> elems]

(***************************************************************************)
(* Heap values: null, undefined, a scalar with its typeof, or a reference  *)
(* to a heap cell.  Heap cells: an object (f) or an array (e).             *)
(***************************************************************************)
NullV == <<"null", "", 0>>

UndefV == <<"undefined", "", 0>>

ScalarV(t, n) == <<"scalar", t, n>>

Ref(a) == <<"ref", "", a>>

ObjCell(fields) == [k |-> "object", f |-> fields, e |-> <<>>]

ArrCell(elems) == [k |-> "array", f |-> NoFields, e |-> elems]

\* x == null in JavaScript: true of null and of undefined
IsNullish(x) == x[1] \in {"null", "undefined"}

IsRef(x) == x[1] = "ref"

\* Array.isArray(x)
IsArray(h, x) == IsRef(x) /\ h[x[3]].k = "array"

\* typeof x
TypeOf(h, x) ==
  CASE x[1] = "undefined" -> "undefined"
    [] x[1] = "null" -> "object"
    [] x[1] = "scalar" -> x[2]
    [] x[1] = "ref" -> "object"

\* x is a non-null, non-array object
IsPlainObject(h, x) == IsRef(x) /\ h[x[3]].k = "object"

\* the property name of array index i (1-based position i is index i-1)
IdxKey(i) == ToString(i - 1)

\* the enumerable own property names of a cell, as for..in visits them
OwnKeys(c) ==
  IF c.k = "array" THEN {IdxKey(i) : i \in 1..Len(c.e)} ELSE DOMAIN c.f

\* c[key]
GetProp(c, key) ==
  IF c.k = "array"
  THEN IF \E i \in 1..Len(c.e) : IdxKey(i) = key
       THEN c.e[CHOOSE i \in 1..Len(c.e) : IdxKey(i) = key]
       ELSE UndefV
  ELSE IF key \in DOMAIN c.f THEN c.f[key] ELSE UndefV

\* target[key] = val on the object cell at address a
SetProp(h, a, key, val) ==
  [h EXCEPT ![a] = ObjCell([x \in (DOMAIN h[a].f) \cup {key} |->
                               IF x = key THEN val ELSE h[a].f[x]])]

(***************************************************************************)
(* Decoding a payload tree onto the heap, and reading a heap value back    *)
(* as a tree.                                                              *)
(***************************************************************************)
RECURSIVE Alloc(_, _), AllocFields(_, _, _, _), AllocElems(_, _, _, _)

Alloc(h, t) ==
  CASE t.k = "null" -> [h |-> h, v |-> NullV]
    [] t.k = "scalar" -> [h |-> h, v |-> ScalarV(t.t, t.v)]
    [] t.k = "object" ->
         LET r == AllocFields(h, t.f, DOMAIN t.f, NoFields)
         IN [h |-> Append(r.h, ObjCell(r.f)), v |-> Ref(Len(r.h) + 1)]
    [] t.k = "array" ->
         LET r == AllocElems(h, t.e, 1, <<>>)
         IN [h |-> Append(r.h, ArrCell(r.e)), v |-> Ref(Len(r.h) + 1)]

AllocFields(h, tf, keys, acc) ==
  IF keys = {} THEN [h |-> h, f |-> acc]
  ELSE LET key == CHOOSE x \in keys : TRUE
           r == Alloc(h, tf[key])
       IN AllocFields(r.h, tf, keys \ {key},
                      [x \in (DOMAIN acc) \cup {key} |->
                          IF x = key THEN r.v ELSE acc[x]])

AllocElems(h, te, i, acc) ==
  IF i > Len(te) THEN [h |-> h, e |-> acc]
  ELSE LET r == Alloc(h, te[i])
       IN AllocElems(r.h, te, i + 1, Append(acc, r.v))

RECURSIVE AllocAll(_, _, _, _)
\* the payload list as the caller holds it: one freshly decoded value each
AllocAll(h, ts, i, acc) ==
  IF i > Len(ts) THEN [h |-> h, vs |-> acc]
  ELSE LET r == Alloc(h, ts[i])
       IN AllocAll(r.h, ts, i + 1, Append(acc, r.v))

RECURSIVE Reify(_, _)
Reify(h, x) ==
  CASE x[1] \in {"null", "undefined"} -> NullT
    [] x[1] = "scalar" -> [k |-> "scalar", t |-> x[2], v |-> x[3],
                           f |-> NoFields, e |-> <<>>]
    [] x[1] = "ref" ->
         LET c == h[x[3]]
         IN IF c.k = "array"
            THEN Arr([i \in 1..Len(c.e) |-> Reify(h, c.e[i])])
            ELSE Obj([key \in DOMAIN c.f |-> Reify(h, c.f[key])])

(***************************************************************************)
(* GraphQL output types: a named type under a stack of List / NonNull      *)
(* wrappers (outermost first).                                             *)
(***************************************************************************)
Named(kind) == [wrap |-> <<>>, named |-> kind]

ListOf(t) == [wrap |-> <<"List">> \o t.wrap, named |-> t.named]

NonNullOf(t) == [wrap |-> <<"NonNull">> \o t.wrap, named |-> t.named]

\* graphql getNamedType: strips every List and NonNull wrapper
getNamedType(t) == [wrap |-> <<>>, named |-> t.named]

isListType(t) == Len(t.wrap) > 0 /\ t.wrap[1] = "List"

isObjectType(t) == t.wrap = <<>> /\ t.named = "object"

isInterfaceType(t) == t.wrap = <<>> /\ t.named = "interface"

(***************************************************************************)
(* Merge options: deduplicateBy is a property name or "" when not given;   *)
(* preferLatest is "true", "false" or "undefined" when not given.          *)
(***************************************************************************)
Opts(d, p) == [deduplicateBy |-> d, preferLatest |-> p]

\* JavaScript truthiness of options.preferLatest
Truthy(p) == p = "true"

\* options.preferLatest ?? true
OrTrue(p) == IF p = "undefined" THEN TRUE ELSE p = "true"

(***************************************************************************)
(* mergeArrayResults                                                       *)
(***************************************************************************)
RECURSIVE CollectItems(_, _, _, _)
\* the first loop: spread arrays, push other non-null results
CollectItems(h, results, i, allItems) ==
  IF i > Len(results) THEN allItems
  ELSE LET result == results[i]
       IN IF IsArray(h, result)
          THEN CollectItems(h, results, i + 1, allItems \o h[result[3]].e)
          ELSE IF ~IsNullish(result)
               THEN CollectItems(h, results, i + 1, Append(allItems, result))
               ELSE CollectItems(h, results, i + 1, allItems)

\* variant without the null test on the key: a missing key counts as a key
ItemKey_MissingAsKey(h, item, field) ==
  IF IsNullish(GetProp(h[item[3]], field))
  THEN ScalarV("string", 0)
  ELSE GetProp(h[item[3]], field)

\* item[options.deduplicateBy] of an item that is typeof 'object'
ItemKey(h, item, field) == GetProp(h[item[3]], field)

\* variants of the duplicate branch: never replacing, and appending the duplicate
ReplaceExisting_KeepFirst(deduplicated, existingIndex, item, options) == deduplicated

ReplaceExisting_Append(deduplicated, existingIndex, item, options) ==
  Append(deduplicated, item)

\* the branch taken on an item whose key was seen before at existingIndex
ReplaceExisting(deduplicated, existingIndex, item, options) ==
  IF Truthy(options.preferLatest)
  THEN [deduplicated EXCEPT ![existingIndex] = item]
  ELSE deduplicated

RECURSIVE Dedupe(_, _, _, _, _, _)
\* the second loop; seen maps a key value to its position in deduplicated
Dedupe(h, allItems, i, seen, deduplicated, options) ==
  IF i > Len(allItems) THEN deduplicated
  ELSE LET item == allItems[i]
       IN IF IsNullish(item) \/ TypeOf(h, item) # "object"
          THEN Dedupe(h, allItems, i + 1, seen, Append(deduplicated, item), options)
          ELSE LET key == ItemKey(h, item, options.deduplicateBy)
               IN IF IsNullish(key)
                  THEN Dedupe(h, allItems, i + 1, seen,
                              Append(deduplicated, item), options)
                  ELSE IF key \in DOMAIN seen
                       THEN Dedupe(h, allItems, i + 1, seen,
                                   ReplaceExisting(deduplicated, seen[key], item, options),
                                   options)
                       ELSE Dedupe(h, allItems, i + 1,
                                   [x \in (DOMAIN seen) \cup {key} |->
                                       IF x = key THEN Len(deduplicated) + 1
                                       ELSE seen[x]],
                                   Append(deduplicated, item), options)

NoSeen == [x \in {} |-> 0]

mergeArrayResults(h, results, options) ==
  LET allItems == CollectItems(h, results, 1, <<>>)
      out == IF options.deduplicateBy = ""
             THEN allItems
             ELSE Dedupe(h, allItems, 1, NoSeen, <<>>, options)
  IN [h |-> Append(h, ArrCell(out)), v |-> Ref(Len(h) + 1)]

(***************************************************************************)
(* deepMerge and mergeObjectResults                                        *)
(***************************************************************************)
RECURSIVE deepMerge(_, _, _, _), DeepMergeKeys(_, _, _, _, _)

\* the loop body with one of its branches changed: "nullWritten" treats a
\* null source value as a scalar, "arrayReplaced" never concatenates,
\* "shallow" never recurses, "scalarOverwrites" ignores preferLatest
DeepMergeKeyVariant(h, target, source, key, preferLatest, variant) ==
  LET sourceValue == GetProp(h[source], key)
      targetValue == GetProp(h[target], key)
  IN IF IsNullish(sourceValue) /\ variant # "nullWritten" THEN h
     ELSE IF IsArray(h, sourceValue)
     THEN IF ~IsArray(h, targetValue) \/ variant = "arrayReplaced"
          THEN SetProp(h, target, key, sourceValue)
          ELSE SetProp(Append(h, ArrCell(h[targetValue[3]].e \o h[sourceValue[3]].e)),
                       target, key, Ref(Len(h) + 1))
     ELSE IF IsPlainObject(h, sourceValue)
     THEN IF ~IsPlainObject(h, targetValue) \/ variant = "shallow"
          THEN SetProp(h, target, key, sourceValue)
          ELSE deepMerge(h, targetValue[3], sourceValue[3], preferLatest)
     ELSE IF preferLatest \/ IsNullish(targetValue) \/ variant = "scalarOverwrites"
          THEN SetProp(h, target, key, sourceValue)
          ELSE h

DeepMergeKey_ScalarOverwrites(h, target, source, key, preferLatest) ==
  DeepMergeKeyVariant(h, target, source, key, preferLatest, "scalarOverwrites")

DeepMergeKey_Shallow(h, target, source, key, preferLatest) ==
  DeepMergeKeyVariant(h, target, source, key, preferLatest, "shallow")

DeepMergeKey_ArrayReplaced(h, target, source, key, preferLatest) ==
  DeepMergeKeyVariant(h, target, source, key, preferLatest, "arrayReplaced")

DeepMergeKey_NullWritten(h, target, source, key, preferLatest) ==
  DeepMergeKeyVariant(h, target, source, key, preferLatest, "nullWritten")

\* one iteration of the for..in loop of deepMerge, for property key
DeepMergeKey(h, target, source, key, preferLatest) ==
  LET sourceValue == GetProp(h[source], key)
      targetValue == GetProp(h[target], key)
  IN IF IsNullish(sourceValue) THEN h
     ELSE IF IsArray(h, sourceValue)
     THEN IF ~IsArray(h, targetValue)
          THEN SetProp(h, target, key, sourceValue)
          ELSE SetProp(Append(h, ArrCell(h[targetValue[3]].e \o h[sourceValue[3]].e)),
                       target, key, Ref(Len(h) + 1))
     ELSE IF IsPlainObject(h, sourceValue)
     THEN IF ~IsPlainObject(h, targetValue)
          THEN SetProp(h, target, key, sourceValue)
          ELSE deepMerge(h, targetValue[3], sourceValue[3], preferLatest)
     ELSE IF preferLatest \/ IsNullish(targetValue)
          THEN SetProp(h, target, key, sourceValue)
          ELSE h

DeepMergeKeys(h, target, source, keys, preferLatest) ==
  IF keys = {} THEN h
  ELSE LET key == CHOOSE x \in keys : TRUE
       IN DeepMergeKeys(DeepMergeKey(h, target, source, key, preferLatest),
                        target, source, keys \ {key}, preferLatest)

\* target and source are heap addresses; the result is the heap afterwards
deepMerge(h, target, source, preferLatest) ==
  DeepMergeKeys(h, target, source, OwnKeys(h[source]), preferLatest)

RECURSIVE MergeObjectLoop(_, _, _, _, _)
MergeObjectLoop(h, merged, results, i, options) ==
  IF i > Len(results) THEN h
  ELSE LET result == results[i]
       IN IF IsNullish(result) \/ TypeOf(h, result) # "object"
          THEN MergeObjectLoop(h, merged, results, i + 1, options)
          ELSE MergeObjectLoop(deepMerge(h, merged, result[3], OrTrue(options.preferLatest)),
                               merged, results, i + 1, options)

mergeObjectResults(h, results, options) ==
  LET h1 == Append(h, ObjCell(NoFields))
      merged == Len(h) + 1
  IN [h |-> MergeObjectLoop(h1, merged, results, 1, options), v |-> Ref(merged)]

(***************************************************************************)
(* mergeResults                                                            *)
(***************************************************************************)
\* the dispatch on the declared type, taken for two or more results
MergeByType(h, results, fieldType, options) ==
  LET namedType == getNamedType(fieldType)
      isList == isListType(getNamedType(fieldType))
  IN IF isList THEN mergeArrayResults(h, results, options)
     ELSE IF isObjectType(namedType) \/ isInterfaceType(namedType)
          THEN mergeObjectResults(h, results, options)
          ELSE [h |-> h, v |-> results[1]]

\* variant without the single-result shortcut
mergeResults_NoShortcut(h, results, fieldType, options) ==
  IF Len(results) = 0 THEN [h |-> h, v |-> NullV]
  ELSE MergeByType(h, results, fieldType, options)

\* variant without the guard for an empty list: results[0] is then undefined
mergeResults_NoEmptyGuard(h, results, fieldType, options) ==
  IF Len(results) = 1 THEN [h |-> h, v |-> results[1]]
  ELSE IF Len(results) = 0 /\ ~isObjectType(getNamedType(fieldType))
                           /\ ~isInterfaceType(getNamedType(fieldType))
       THEN [h |-> h, v |-> UndefV]
       ELSE MergeByType(h, results, fieldType, options)

mergeResults(h, results, fieldType, options) ==
  IF Len(results) = 0 THEN [h |-> h, v |-> NullV]
  ELSE IF Len(results) = 1 THEN [h |-> h, v |-> results[1]]
  ELSE MergeByType(h, results, fieldType, options)

\* mergeResults called with results given or not (undefined / null): a
\* missing list is falsy and takes the !results branch
mergeResultsOf(h, given, results, fieldType, options) ==
  IF ~given THEN [h |-> h, v |-> NullV]
  ELSE mergeResults(h, results, fieldType, options)

(***************************************************************************)
(* validateResultCompatibility                                             *)
(***************************************************************************)
\* null, 'array' or typeof, as the function classifies one result
ResultType(h, x) ==
  IF IsNullish(x) THEN "null"
  ELSE IF IsArray(h, x) THEN "array" ELSE TypeOf(h, x)

Accepted == [ok |-> TRUE, expected |-> "", got |-> "", index |-> 0]

Thrown(expected, got, index) ==
  [ok |-> FALSE, expected |-> expected, got |-> got, index |-> index]

RECURSIVE ValidateLoop(_, _, _)
ValidateLoop(h, results, i) ==
  IF i > Len(results) THEN Accepted
  ELSE LET firstResult == results[1]
           firstType == ResultType(h, firstResult)
           result == results[i]
           resultType == ResultType(h, result)
       IN IF IsNullish(result) /\ IsNullish(firstResult)
          THEN ValidateLoop(h, results, i + 1)
          ELSE IF resultType # firstType
               THEN Thrown(firstType, resultType, i)
               ELSE ValidateLoop(h, results, i + 1)

\* variant that never throws
validateResultCompatibility_AcceptAll(h, results, fieldType) == Accepted

\* index is the 1-based position the message reports ("result #i")
validateResultCompatibility(h, results, fieldType) ==
  IF Len(results) <= 1 THEN Accepted ELSE ValidateLoop(h, results, 2)

(***************************************************************************)
(* The inputs the merge functions are exercised on.                        *)
(***************************************************************************)
\* a record {id: i, name: n}
R(i, n) == Obj("id" :> Num(i) @@ "name" :> Num(n))

\* a record without the dedupe key, {name: n}
K(n) == Obj("name" :> Num(n))

\* a record whose dedupe key is null, {id: null, name: n}
RN(n) == Obj("id" :> NullT @@ "name" :> Num(n))

OA == Obj("profile" :> Obj("name" :> Str(1) @@ "bio" :> Str(2)))

OB == Obj("profile" :> Obj("name" :> Str(1) @@ "status" :> Str(3))
          @@ "stats" :> Obj("followers" :> Num(1)))

\* one payload of every runtime kind
Payloads ==
  {NullT, Num(1), Num(2), Str(1), OA, OB, R(1, 1),
   Arr(<<R(1, 1), R(2, 1)>>), Arr(<<R(1, 2)>>)}

SeqsUpTo(S, n) == UNION {[1..m -> S] : m \in 0..n}

PayloadLists == SeqsUpTo(Payloads, MaxPayloads)

FieldTypes ==
  {Named("object"), Named("interface"), Named("scalar"), Named("enum"),
   ListOf(Named("object")), NonNullOf(ListOf(NonNullOf(Named("object")))),
   ListOf(Named("scalar"))}

Options == {Opts(d, p) : d \in {"", "id"}, p \in {"undefined", "true", "false"}}

(***************************************************************************)
(* State: the decoded payload list on the heap, the call made on it and    *)
(* what the call returned or threw.                                        *)
(***************************************************************************)
NoCall == [op |-> "none", fieldType |-> Named("scalar"), options |-> Opts("", "undefined")]

NoRet == [kind |-> "none", v |-> UndefV, err |-> Accepted]

Returned(v) == [kind |-> "value", v |-> v, err |-> Accepted]

Threw(e) == [kind |-> "throw", v |-> UndefV, err |-> e]

\* the heap as decoded, before any call
InitHeap(ts) == AllocAll(<<>>, ts, 1, <<>>)

(***************************************************************************)
(* Field resolution over several targets (httpOperation.ts): the selector  *)
(* is resolved to a target list, one call per target is issued, the calls  *)
(* are awaited with Promise.all, and the payloads are validated and        *)
(* merged.                                                                 *)
(***************************************************************************)
\* the configured targets, in configuration order
ConfiguredTargets == <<"primary", "replica">>

ConfiguredNames == {ConfiguredTargets[i] : i \in 1..Len(ConfiguredTargets)}

SelectorNames == ConfiguredNames \cup {"ghost"}

\* the endpointName argument: absent, one name, or a list of names
AbsentSelector == [kind |-> "absent", names |-> <<>>]

NameSelector(n) == [kind |-> "name", names |-> <<n>>]

ListSelector(ns) == [kind |-> "list", names |-> ns]

Selectors ==
  {AbsentSelector} \cup {NameSelector(n) : n \in SelectorNames}
    \cup {ListSelector(ns) : ns \in UNION {[1..m -> SelectorNames] : m \in 1..MaxTargets}}

\* the result of one field resolution
\* steps lists the stages run on the collected payloads, in order
NoResult ==
  [kind |-> "none", errKind |-> "", name |-> "", valid |-> <<>>,
   err |-> Accepted, value |-> NullT, handed |-> <<>>, steps |-> <<>>]

Value(tree, handed) == [NoResult EXCEPT !.kind = "value", !.value = tree, !.handed = handed]

UnknownTargetError(name) ==
  [NoResult EXCEPT !.kind = "error", !.errKind = "UnknownTarget", !.name = name,
                   !.valid = ConfiguredTargets]

\* a failed call of a multi-target dispatch, with the failing target's name
DispatchError(name) ==
  [NoResult EXCEPT !.kind = "error", !.errKind = "Dispatch", !.name = name]

\* a failed single-target call, propagated as it is
CallError(name) == [NoResult EXCEPT !.kind = "error", !.errKind = "Call", !.name = name]

\* the shared deadline fired before every call had completed
TimeoutError == [NoResult EXCEPT !.kind = "error", !.errKind = "Timeout"]

IncompatibilityError(e, handed) ==
  [NoResult EXCEPT !.kind = "error", !.errKind = "Incompatible", !.err = e,
                   !.handed = handed]

\* variant whose default is the last configured target
NormalizeSelector_LastTarget(sel) ==
  IF sel.kind = "absent" THEN <<ConfiguredTargets[Len(ConfiguredTargets)]>> ELSE sel.names

\* the selector as a list of names: absent selects the first configured target
NormalizeSelector(sel) ==
  IF sel.kind = "absent" THEN <<ConfiguredTargets[1]>> ELSE sel.names

\* the names of a list that are not configured, by position
UnknownPositions(names) == {i \in 1..Len(names) : names[i] \notin ConfiguredNames}

\* variant that silently drops the names it does not know
ResolveTargets_DropUnknown(sel) ==
  LET names == NormalizeSelector(sel)
      F[i \in 0..Len(names)] ==
        IF i = 0 THEN <<>>
        ELSE IF names[i] \in ConfiguredNames THEN Append(F[i - 1], names[i]) ELSE F[i - 1]
  IN [ok |-> TRUE, targets |-> F[Len(names)], unknown |-> ""]

\* variant that calls every named target once, however often it is named
ResolveTargets_Dedupe(sel) ==
  LET names == NormalizeSelector(sel)
      bad == UnknownPositions(names)
      F[i \in 0..Len(names)] ==
        IF i = 0 THEN <<>>
        ELSE IF \E j \in 1..(i - 1) : names[j] = names[i]
             THEN F[i - 1] ELSE Append(F[i - 1], names[i])
  IN IF bad = {}
     THEN [ok |-> TRUE, targets |-> F[Len(names)], unknown |-> ""]
     ELSE [ok |-> FALSE, targets |-> <<>>,
           unknown |-> names[CHOOSE i \in bad : \A j \in bad : i <= j]]

\* every name is validated before anything is dispatched
ResolveTargets(sel) ==
  LET names == NormalizeSelector(sel)
      bad == UnknownPositions(names)
  IN IF bad = {}
     THEN [ok |-> TRUE, targets |-> names, unknown |-> ""]
     ELSE [ok |-> FALSE, targets |-> <<>>,
           unknown |-> names[CHOOSE i \in bad : \A j \in bad : i <= j]]

\* what one call yields once it completes
Fail == [ok |-> FALSE, payload |-> NullT]

Ok(tree) == [ok |-> TRUE, payload |-> tree]

Outcomes == {Fail, Ok(R(1, 1)), Ok(R(1, 2)), Ok(Arr(<<R(1, 1)>>))}

DispatchFieldTypes == {Named("object"), Named("scalar")}

\* the payloads in target order, as Promise.all resolves them
PayloadsInTargetOrder(outs) == [i \in 1..Len(outs) |-> outs[i].payload]

\* validate, then merge, as performMultiEndpointRequest does after the await
ValidateAndMerge(trees, fieldType) ==
  LET a == AllocAll(<<>>, trees, 1, <<>>)
      v == validateResultCompatibility(a.h, a.vs, fieldType)
      m == mergeResults(a.h, a.vs, fieldType, Opts("", "undefined"))
  IN IF v.ok
     THEN [Value(Reify(m.h, m.v), trees) EXCEPT !.steps = <<"validate", "merge">>]
     ELSE [IncompatibilityError(v, trees) EXCEPT !.steps = <<"validate">>]

\* variant with a partial-success mode: failed calls are left out
FinishResult_Partial(tgts, outs, rejected, fieldType) ==
  LET okPos == {i \in 1..Len(outs) : outs[i].ok}
      F[i \in 0..Len(outs)] ==
        IF i = 0 THEN <<>>
        ELSE IF i \in okPos THEN Append(F[i - 1], outs[i].payload) ELSE F[i - 1]
  IN IF Len(tgts) = 1
     THEN (IF rejected # 0 THEN CallError(tgts[1]) ELSE Value(outs[1].payload, <<outs[1].payload>>))
     ELSE ValidateAndMerge(F[Len(outs)], fieldType)

\* what the resolver returns once Promise.all has settled; rejected is the
\* position of the call whose failure rejected it, 0 when none did
FinishResult(tgts, outs, rejected, fieldType) ==
  IF Len(tgts) = 1
  THEN (IF rejected # 0 THEN CallError(tgts[1]) ELSE Value(outs[1].payload, <<outs[1].payload>>))
  ELSE IF rejected # 0 THEN DispatchError(tgts[rejected])
       ELSE ValidateAndMerge(PayloadsInTargetOrder(outs), fieldType)

(***************************************************************************)
(* The OpenAPI loader (loadGraphQLSchemaFromOpenAPI.ts): the schema built  *)
(* from the options gets the multiInstanceEndpoints extension when a       *)
(* non-empty endpoints list is configured.                                 *)
(***************************************************************************)
\* one APIEndpointConfig
Endpoint(name, endpoint) == [name |-> name, endpoint |-> endpoint]

EndpointNames == {"ALPHA", "BETA", "GAMMA"}

EndpointAddresses == {"https://alpha", "https://beta"}

EndpointConfigs == {Endpoint(n, a) : n \in EndpointNames, a \in EndpointAddresses}

\* the options of the loader: endpoint is "" and endpoints.given is FALSE
\* when the option is not set
LoaderOptions(endpoint, given, list) ==
  [endpoint |-> endpoint, endpoints |-> [given |-> given, list |-> list]]

\* the options the JSON-schema loader is given for the OpenAPI options:
\* the endpoints option is handed on as it is
getJSONSchemaOptionsFromOpenAPIOptions(options) ==
  [endpoint |-> options.endpoint, endpoints |-> options.endpoints]

\* a JavaScript Map from names to addresses: keys in insertion order
EmptyMap == [keys |-> <<>>, val |-> [x \in {} |-> ""]]

\* Map.prototype.set: a new key goes last, a known key keeps its place
MapSet(m, key, value) ==
  [keys |-> IF key \in DOMAIN m.val THEN m.keys ELSE Append(m.keys, key),
   val |-> [x \in (DOMAIN m.val) \cup {key} |-> IF x = key THEN value ELSE m.val[x]]]

RECURSIVE NewMap(_, _, _)
\* new Map(endpoints.map(e => [e.name, e.endpoint]))
NewMap(endpoints, i, m) ==
  IF i > Len(endpoints) THEN m
  ELSE NewMap(endpoints, i + 1, MapSet(m, endpoints[i].name, endpoints[i].endpoint))

\* variant that destructures an entry the wrong way round
EntriesOf_Swapped(m) == [i \in 1..Len(m.keys) |-> Endpoint(m.val[m.keys[i]], m.keys[i])]

\* Array.from(endpointMap.entries()).map(([name, endpoint]) => ({name, endpoint}))
EntriesOf(m) == [i \in 1..Len(m.keys) |-> Endpoint(m.keys[i], m.val[m.keys[i]])]

\* the extension: none, or the endpoints list and the endpointMap object
NoExtension == [present |-> FALSE, endpoints |-> <<>>, endpointMap |-> [x \in {} |-> ""]]

Extension(endpoints, endpointMap) ==
  [present |-> TRUE, endpoints |-> endpoints, endpointMap |-> endpointMap]

\* a schema: whether it has an extensions object, the other extensions it
\* carries, and its multiInstanceEndpoints extension
Schema(hasExtensions, others, multi) ==
  [hasExtensions |-> hasExtensions, others |-> others, multiInstanceEndpoints |-> multi]

NoSchema == Schema(FALSE, {}, NoExtension)

\* the schemas loadGraphQLSchemaFromJSONSchemas may return
BaseSchemas == {Schema(FALSE, {}, NoExtension), Schema(TRUE, {}, NoExtension),
                Schema(TRUE, {"directives"}, NoExtension)}

\* variant that lists the configured endpoints as they were given
enhanceSchemaWithMultiInstanceSupport_RawList(sch, endpoints) ==
  Schema(TRUE, sch.others, Extension(endpoints, NewMap(endpoints, 1, EmptyMap).val))

enhanceSchemaWithMultiInstanceSupport(sch, endpoints) ==
  LET endpointMap == NewMap(endpoints, 1, EmptyMap)
  IN Schema(TRUE, sch.others, Extension(EntriesOf(endpointMap), endpointMap.val))

\* variant without the length test: an empty list is enhanced too
loadGraphQLSchemaFromOpenAPI_NoLengthTest(options, base) ==
  LET extraJSONSchemaOptions == getJSONSchemaOptionsFromOpenAPIOptions(options)
  IN IF extraJSONSchemaOptions.endpoints.given
     THEN enhanceSchemaWithMultiInstanceSupport(base, extraJSONSchemaOptions.endpoints.list)
     ELSE base

\* base is the schema loadGraphQLSchemaFromJSONSchemas returns
loadGraphQLSchemaFromOpenAPI(options, base) ==
  LET extraJSONSchemaOptions == getJSONSchemaOptionsFromOpenAPIOptions(options)
  IN IF extraJSONSchemaOptions.endpoints.given
        /\ Len(extraJSONSchemaOptions.endpoints.list) > 0
     THEN enhanceSchemaWithMultiInstanceSupport(base, extraJSONSchemaOptions.endpoints.list)
     ELSE base

\* the loader before it is called
LoaderIdle ==
  /\ loaderOptions = LoaderOptions("", FALSE, <<>>)
  /\ baseSchema = NoSchema
  /\ lpc = "idle"
  /\ schema = NoSchema

\* variant that chains the calls: only the first is started
IssueCalls_Chained(tgts) ==
  [i \in 1..Len(tgts) |-> IF i = 1 THEN "inflight" ELSE "pending"]

\* the state of the calls once the resolver awaits them: every call started
IssueCalls(tgts) == [i \in 1..Len(tgts) |-> "inflight"]

\* no deadline supplied, no timer armed
NoDeadline == 0

\* the timer armed when a dispatch starts: one for the whole multi-target
\* dispatch, none when the caller supplied no deadline
ArmTimer(tgts, limit, t) ==
  IF limit = NoDeadline \/ Len(tgts) < 2 THEN NoDeadline ELSE t + limit

\* variant that restarts the deadline with every completed call
TimerAfterCompletion_Restarted(armed, limit, t) ==
  IF armed = NoDeadline THEN NoDeadline ELSE t + limit

\* the timer once a call has completed: left as it was armed
TimerAfterCompletion(armed, limit, t) == armed

\* Promise.all has not settled: no call failed and some call is in flight
Unsettled(st, rejected) ==
  rejected = 0 /\ \E i \in 1..Len(st) : st[i] = "inflight"

\* every call still in flight is abandoned
Abandon(st) == [i \in 1..Len(st) |-> IF st[i] = "inflight" THEN "abandoned" ELSE st[i]]

\* the resolver before a request
DispatchIdle ==
  /\ selector = AbsentSelector
  /\ outcomes = <<>>
  /\ dFieldType = Named("scalar")
  /\ dpc = "idle"
  /\ targets = <<>>
  /\ status = <<>>
  /\ rejectedBy = 0
  /\ issued = 0
  /\ dret = NoResult
  /\ prev = NoResult
  /\ deadline = NoDeadline
  /\ timer = NoDeadline
  /\ now = 0

InitOn(ts) ==
  /\ payloads = ts
  /\ heap = InitHeap(payloads).h
  /\ resultList = InitHeap(payloads).vs
  /\ call = NoCall
  /\ ret = NoRet
  /\ DispatchIdle
  /\ LoaderIdle

Init == \E ts \in PayloadLists : InitOn(ts)

CallMergeResults ==
  \E fieldType \in FieldTypes, options \in Options :
    /\ call.op \in {"none", "validateResultCompatibility"}
    /\ ret.kind # "throw"
    /\ LET m == mergeResults(heap, resultList, fieldType, options)
       IN /\ heap' = m.h
          /\ ret' = Returned(m.v)
    /\ call' = [op |-> "mergeResults", fieldType |-> fieldType, options |-> options]
    /\ UNCHANGED <<payloads, resultList, dispatchVars, loaderVars>>

CallValidate ==
  \E fieldType \in FieldTypes :
    /\ call.op = "none"
    /\ LET r == validateResultCompatibility(heap, resultList, fieldType)
       IN ret' = IF r.ok THEN [kind |-> "ok", v |-> UndefV, err |-> r] ELSE Threw(r)
    /\ call' = [op |-> "validateResultCompatibility", fieldType |-> fieldType,
                options |-> Opts("", "undefined")]
    /\ UNCHANGED <<payloads, heap, resultList, dispatchVars, loaderVars>>

\* mergeResults(undefined, fieldType, options)
CallMergeResultsMissing ==
  \E fieldType \in FieldTypes, options \in Options :
    /\ call.op = "none"
    /\ LET m == mergeResultsOf(heap, FALSE, <<>>, fieldType, options)
       IN /\ heap' = m.h
          /\ ret' = Returned(m.v)
    /\ call' = [op |-> "mergeResultsMissing", fieldType |-> fieldType, options |-> options]
    /\ UNCHANGED <<payloads, resultList, dispatchVars, loaderVars>>

Next == CallMergeResults \/ CallValidate \/ CallMergeResultsMissing

Spec == Init /\ [][Next]_vars

(***************************************************************************)
(* mergeArrayResults called on its own: lists of arrays (or null, or a     *)
(* bare record) holding at most MaxItems elements in all.                  *)
(***************************************************************************)
Elems == {R(1, 1), R(1, 2), R(2, 1), K(1), RN(1), Num(1), NullT}

\* the ways to cut n items into k consecutive parts
Cuts(k, n) ==
  {c \in [0..k -> 0..n] : c[0] = 0 /\ c[k] = n /\ \A j \in 1..k : c[j - 1] <= c[j]}

Part(items, c, j) == SubSeq(items, c[j - 1] + 1, c[j])

\* part j as a payload: an array, null for an empty part in N, or the
\* record itself for a one-record part when bare is set
PartPayload(items, c, j, N, bare) ==
  LET part == Part(items, c, j)
  IN IF j \in N THEN NullT
     ELSE IF bare /\ Len(part) = 1 /\ part[1].k = "object" THEN part[1]
     ELSE Arr(part)

ArrayOptions ==
  {Opts("", "undefined"), Opts("id", "undefined"), Opts("id", "true"), Opts("id", "false")}

InitArray ==
  \E k \in 1..MaxArrays, items \in SeqsUpTo(Elems, MaxItems) :
    \E c \in Cuts(k, Len(items)), bare \in BOOLEAN :
      \E N \in SUBSET {j \in 1..k : Part(items, c, j) = <<>>} :
        InitOn([j \in 1..k |-> PartPayload(items, c, j, N, bare)])

CallMergeArrayResults ==
  \E options \in ArrayOptions :
    /\ call.op = "none"
    /\ LET m == mergeArrayResults(heap, resultList, options)
       IN /\ heap' = m.h
          /\ ret' = Returned(m.v)
    /\ call' = [op |-> "mergeArrayResults", fieldType |-> ListOf(Named("object")),
                options |-> options]
    /\ UNCHANGED <<payloads, resultList, dispatchVars, loaderVars>>

NextArray == CallMergeArrayResults

SpecArray == InitArray /\ [][NextArray]_vars

(***************************************************************************)
(* mergeObjectResults called on its own: lists of records over the fields  *)
(* profile (a scalar, a nested record, an array, or null) and stats, with  *)
(* null and scalar payloads among them.                                    *)
(***************************************************************************)
ProfileValues ==
  {NullT, Str(1), Str(2),
   OA.f["profile"], OB.f["profile"],
   Obj("name" :> NullT @@ "bio" :> Str(3)),
   Obj("name" :> Str(1) @@ "tags" :> Arr(<<Num(1)>>)),
   Obj("tags" :> Arr(<<Num(2)>>) @@ "bio" :> NullT),
   Arr(<<R(1, 1)>>), Arr(<<R(1, 2), R(2, 1)>>)}

ObjPayloads ==
  {Obj("profile" :> v) : v \in ProfileValues}
    \cup {OB, Obj("stats" :> Obj("followers" :> Num(2))), NullT, Num(1)}

ObjectOptions == {Opts("", p) : p \in {"undefined", "true", "false"}}

InitObject ==
  \E n \in 0..MaxPayloads : \E ts \in [1..n -> ObjPayloads] : InitOn(ts)

CallMergeObjectResults ==
  \E options \in ObjectOptions :
    /\ call.op = "none"
    /\ LET m == mergeObjectResults(heap, resultList, options)
       IN /\ heap' = m.h
          /\ ret' = Returned(m.v)
    /\ call' = [op |-> "mergeObjectResults", fieldType |-> Named("object"),
                options |-> options]
    /\ UNCHANGED <<payloads, resultList, dispatchVars, loaderVars>>

NextObject == CallMergeObjectResults

SpecObject == InitObject /\ [][NextObject]_vars

(***************************************************************************)
(* The field resolver: one request, with the outcome of every call fixed   *)
(* beforehand, resolved under any completion order; the same request may   *)
(* then be resolved a second time.                                         *)
(***************************************************************************)
InitRequest(limit) ==
  /\ payloads = <<>>
  /\ heap = <<>>
  /\ resultList = <<>>
  /\ call = NoCall
  /\ ret = NoRet
  /\ selector \in Selectors
  /\ outcomes \in [1..Len(ResolveTargets(selector).targets) -> Outcomes]
  /\ dFieldType \in DispatchFieldTypes
  /\ dpc = "start"
  /\ targets = <<>>
  /\ status = <<>>
  /\ rejectedBy = 0
  /\ issued = 0
  /\ dret = NoResult
  /\ prev = NoResult
  /\ deadline = limit
  /\ timer = NoDeadline
  /\ now = 0
  /\ LoaderIdle

\* a request without a deadline
InitDispatch == InitRequest(NoDeadline)

\* normalise and validate the selector; an unknown name ends the resolution
Resolve ==
  /\ dpc = "start"
  /\ LET r == ResolveTargets(selector)
     IN IF r.ok
        THEN /\ targets' = r.targets
             /\ dpc' = "resolved"
             /\ dret' = dret
        ELSE /\ targets' = targets
             /\ dpc' = "done"
             /\ dret' = UnknownTargetError(r.unknown)
  /\ UNCHANGED <<mergeVars, loaderVars, selector, outcomes, dFieldType, status, rejectedBy, issued, prev,
                 deadline, timer, now>>

\* issue one call per target, all before any of them is awaited
Dispatch ==
  /\ dpc = "resolved"
  /\ status' = IssueCalls(targets)
  /\ issued' = issued + Cardinality({i \in 1..Len(targets) : status'[i] = "inflight"})
  /\ dpc' = "waiting"
  /\ timer' = ArmTimer(targets, deadline, now)
  /\ UNCHANGED <<mergeVars, loaderVars, selector, outcomes, dFieldType, targets, rejectedBy, dret, prev,
                 deadline, now>>

\* call i completes; the first failure to arrive rejects Promise.all
Complete(i) ==
  /\ dpc = "waiting"
  /\ status[i] = "inflight"
  /\ status' = [status EXCEPT ![i] = IF outcomes[i].ok THEN "ok" ELSE "failed"]
  /\ rejectedBy' = IF ~outcomes[i].ok /\ rejectedBy = 0 THEN i ELSE rejectedBy
  /\ timer' = TimerAfterCompletion(timer, deadline, now)
  /\ UNCHANGED <<mergeVars, loaderVars, selector, outcomes, dFieldType, dpc, targets, issued, dret, prev,
                 deadline, now>>

\* Promise.all has settled: rejected, or every call fulfilled
Finish ==
  /\ dpc = "waiting"
  /\ rejectedBy # 0 \/ \A i \in 1..Len(status) : status[i] = "ok"
  /\ dret' = FinishResult(targets, outcomes, rejectedBy, dFieldType)
  /\ dpc' = "done"
  /\ UNCHANGED <<mergeVars, loaderVars, selector, outcomes, dFieldType, targets, status, rejectedBy, issued, prev,
                 deadline, timer, now>>

\* the same request is resolved once more
ResolveAgain ==
  /\ dpc = "done"
  /\ prev = NoResult
  /\ prev' = dret
  /\ dpc' = "start"
  /\ targets' = <<>>
  /\ status' = <<>>
  /\ rejectedBy' = 0
  /\ issued' = 0
  /\ dret' = NoResult
  /\ timer' = NoDeadline
  /\ now' = 0
  /\ UNCHANGED <<mergeVars, loaderVars, selector, outcomes, dFieldType, deadline>>

NextDispatch ==
  \/ Resolve
  \/ Dispatch
  \/ \E i \in 1..MaxTargets : i <= Len(status) /\ Complete(i)
  \/ Finish
  \/ ResolveAgain

SpecDispatch == InitDispatch /\ [][NextDispatch]_vars

(***************************************************************************)
(* The field resolver under a caller-supplied deadline of up to            *)
(* MaxDeadline units of time: time passes while the calls of a             *)
(* multi-target dispatch are awaited, and the deadline may elapse first.   *)
(***************************************************************************)
InitDeadline == \E limit \in 1..MaxDeadline : InitRequest(limit)

\* a unit of time passes while the dispatch is awaited
Tick ==
  /\ dpc = "waiting"
  /\ timer # NoDeadline
  /\ Unsettled(status, rejectedBy)
  /\ now < timer
  /\ now' = now + 1
  /\ UNCHANGED <<mergeVars, loaderVars, selector, outcomes, dFieldType, dpc, targets, status,
                 rejectedBy, issued, dret, prev, deadline, timer>>

\* the deadline elapses before every call has completed: the calls in
\* flight are abandoned and the resolution ends with a TimeoutError
DeadlineElapses ==
  /\ dpc = "waiting"
  /\ timer # NoDeadline
  /\ Unsettled(status, rejectedBy)
  /\ now >= timer
  /\ status' = Abandon(status)
  /\ dret' = TimeoutError
  /\ dpc' = "done"
  /\ UNCHANGED <<mergeVars, loaderVars, selector, outcomes, dFieldType, targets, rejectedBy,
                 issued, prev, deadline, timer, now>>

NextDeadline ==
  \/ Resolve
  \/ Dispatch
  \/ \E i \in 1..MaxTargets : i <= Len(status) /\ Complete(i)
  \/ Finish
  \/ Tick
  \/ DeadlineElapses

SpecDeadline == InitDeadline /\ [][NextDeadline]_vars

(***************************************************************************)
(* The loader called once on any options: a single endpoint or none, and   *)
(* no endpoints list or one of up to MaxEndpoints entries, names repeated  *)
(* or not.                                                                 *)
(***************************************************************************)
InitLoader ==
  /\ payloads = <<>>
  /\ heap = <<>>
  /\ resultList = <<>>
  /\ call = NoCall
  /\ ret = NoRet
  /\ DispatchIdle
  /\ \E endpoint \in {"", "https://api"}, given \in BOOLEAN, n \in 0..MaxEndpoints :
       \E list \in [1..n -> EndpointConfigs] :
         /\ given \/ n = 0
         /\ loaderOptions = LoaderOptions(endpoint, given, list)
  /\ baseSchema \in BaseSchemas
  /\ lpc = "start"
  /\ schema = NoSchema

LoadSchema ==
  /\ lpc = "start"
  /\ schema' = loadGraphQLSchemaFromOpenAPI(loaderOptions, baseSchema)
  /\ lpc' = "done"
  /\ UNCHANGED <<mergeVars, dispatchVars, loaderOptions, baseSchema>>

NextLoader == LoadSchema

SpecLoader == InitLoader /\ [][NextLoader]_vars

(***************************************************************************)
(* Properties.                                                             *)
(***************************************************************************)
Min(S) == CHOOSE x \in S : \A y \in S : x <= y

Max(S) == CHOOSE x \in S : \A y \in S : x >= y

\* the cell the returned reference points to
RetCell == heap[ret.v[3]]

\* C1: mergeResults([p], type, options) returns p itself for every payload,
\* declared type and options: the same value or reference, with nothing on
\* the heap created or changed.
C1_SingleResultReturnedAsIs ==
  (call.op = "mergeResults" /\ Len(resultList) = 1) =>
    /\ ret.kind = "value"
    /\ ret.v = resultList[1]
    /\ heap = InitHeap(payloads).h

C1_Witness ==
  /\ call.op = "mergeResults"
  /\ Len(resultList) = 1
  /\ IsPlainObject(heap, resultList[1])
  /\ call.fieldType = Named("object")
  /\ call.options = Opts("id", "true")

\* the declared output type is a list, possibly non-null
DeclaredList(t) ==
  \/ isListType(t)
  \/ Len(t.wrap) > 1 /\ t.wrap[1] = "NonNull" /\ t.wrap[2] = "List"

RECURSIVE FlatTrees(_, _)
\* the elements of the non-absent payload trees from position i on, in order
FlatTrees(ts, i) ==
  IF i > Len(ts) THEN <<>>
  ELSE (IF ts[i].k = "array" THEN ts[i].e
        ELSE IF ts[i].k = "null" THEN <<>> ELSE <<ts[i]>>) \o FlatTrees(ts, i + 1)

\* the non-null "id" values of the records of a sequence of trees
TreeIds(es) ==
  {es[i].f["id"] : i \in {j \in 1..Len(es) :
      es[j].k = "object" /\ "id" \in DOMAIN es[j].f /\ es[j].f["id"].k # "null"}}

\* C2: for a list-typed field (here a list of records) and two or more
\* array payloads mergeResults returns one sequence: the payloads' elements
\* concatenated in payload order, deduplicated by the dedupe key when one
\* is given.
C2_ListTypeMergesAsCollection ==
  (/\ call.op = "mergeResults"
   /\ DeclaredList(call.fieldType)
   /\ call.fieldType.named = "object"
   /\ Len(resultList) >= 2
   /\ \A i \in 1..Len(payloads) : payloads[i].k = "array") =>
    LET res == Reify(heap, ret.v)
        all == FlatTrees(payloads, 1)
    IN /\ res.k = "array"
       /\ call.options.deduplicateBy = "" => res.e = all
       /\ call.options.deduplicateBy = "id" =>
            /\ TreeIds(res.e) = TreeIds(all)
            /\ \A i, j \in 1..Len(res.e) :
                 (i # j /\ TreeIds(<<res.e[i]>>) # {}) =>
                   TreeIds(<<res.e[i]>>) # TreeIds(<<res.e[j]>>)

RECURSIVE FlatItems(_, _, _)
\* the concatenated input of the collection merge, as heap values
FlatItems(h, vs, i) ==
  IF i > Len(vs) THEN <<>>
  ELSE (IF IsArray(h, vs[i]) THEN h[vs[i][3]].e
        ELSE IF IsNullish(vs[i]) THEN <<>> ELSE <<vs[i]>>) \o FlatItems(h, vs, i + 1)

AllItems == FlatItems(heap, resultList, 1)

\* the dedupe-key value of an element, undefined when it has none
KeyOf(x) == IF IsRef(x) THEN GetProp(heap[x[3]], call.options.deduplicateBy) ELSE UndefV

Keyed(x) == ~IsNullish(KeyOf(x))

\* the positions of a sequence of heap values that carry key value kv
Occ(items, kv) == {i \in 1..Len(items) : KeyOf(items[i]) = kv}

\* C3: in the collection merge the one element kept for a dedupe-key value
\* is the last occurrence in input order when preferLatest is true and the
\* first occurrence when preferLatest is false.
C3_KeptOccurrence ==
  (/\ call.op = "mergeArrayResults"
   /\ call.options.deduplicateBy = "id"
   /\ call.options.preferLatest \in {"true", "false"}) =>
    LET all == AllItems
        out == RetCell.e
    IN \A i \in 1..Len(all) :
         Keyed(all[i]) =>
           LET occ == Occ(all, KeyOf(all[i]))
               kept == IF call.options.preferLatest = "true" THEN Max(occ) ELSE Min(occ)
           IN \E j \in 1..Len(out) :
                /\ Occ(out, KeyOf(all[i])) = {j}
                /\ out[j] = all[kept]

C3_Witness ==
  /\ call.op = "mergeArrayResults"
  /\ call.options = Opts("id", "true")
  /\ LET all == AllItems
     IN \E i \in 1..Len(all) :
          /\ Keyed(all[i])
          /\ LET occ == Occ(all, KeyOf(all[i]))
             IN /\ Cardinality(occ) >= 3
                /\ Reify(heap, all[Min(occ)]) # Reify(heap, all[Max(occ)])

\* the positions of the concatenated input that survive: elements without
\* a key, and the first occurrence of every key value
Firsts(all) ==
  {i \in 1..Len(all) : Keyed(all[i]) => i = Min(Occ(all, KeyOf(all[i])))}

\* the j-th smallest member of a set of positions
Nth(S, j) == CHOOSE i \in S : Cardinality({x \in S : x <= i}) = j

\* C4: with a dedupe key set the output holds exactly one element per
\* distinct non-null key value, at the position of the key's first
\* occurrence: duplicates neither append an entry nor reorder the others.
C4_OnePerKeyAtFirstPosition ==
  (call.op = "mergeArrayResults" /\ call.options.deduplicateBy = "id") =>
    LET all == AllItems
        out == RetCell.e
        firsts == Firsts(all)
    IN /\ Len(out) = Cardinality(firsts)
       /\ \A j \in 1..Len(out) :
            LET first == all[Nth(firsts, j)]
            IN IF Keyed(first)
               THEN KeyOf(out[j]) = KeyOf(first)
               ELSE out[j] = first

C4_Witness ==
  /\ call.op = "mergeArrayResults"
  /\ call.options.deduplicateBy = "id"
  /\ LET all == AllItems
     IN \E i, j, k \in 1..Len(all) :
          /\ i < j /\ j < k
          /\ Keyed(all[i])
          /\ KeyOf(all[k]) = KeyOf(all[i])
          /\ KeyOf(all[j]) # KeyOf(all[i])

\* C5: mergeResults on two or more payloads leaves every input payload,
\* nested records and arrays included, equal to what it was before.
C5_InputsNotMutated ==
  (call.op = "mergeResults" /\ Len(resultList) >= 2) =>
    \A i \in 1..Len(resultList) : Reify(heap, resultList[i]) = payloads[i]

\* the first payload that is not null or undefined, null when all are
FirstNonAbsent(vs) ==
  IF \E i \in 1..Len(vs) : ~IsNullish(vs[i])
  THEN vs[Min({i \in 1..Len(vs) : ~IsNullish(vs[i])})]
  ELSE NullV

\* C6: for a scalar or enum field and two or more payloads mergeResults
\* returns the first non-absent payload, skipping leading null payloads.
C6_ScalarFirstNonAbsent ==
  (/\ call.op = "mergeResults"
   /\ call.fieldType \in {Named("scalar"), Named("enum")}
   /\ Len(resultList) >= 2) =>
    ret.v = FirstNonAbsent(resultList)

\* C10: validateResultCompatibility accepts every payload list whose
\* non-absent payloads share one classification, wherever nulls occur.
C10_NullCompatibleAnywhere ==
  (/\ call.op = "validateResultCompatibility"
   /\ \A i, j \in 1..Len(resultList) :
        (~IsNullish(resultList[i]) /\ ~IsNullish(resultList[j])) =>
          ResultType(heap, resultList[i]) = ResultType(heap, resultList[j])) =>
    ret.kind = "ok"

\* the positions of the resolved list whose call fails
FailingPositions == {i \in 1..Len(targets) : ~outcomes[i].ok}

\* C7: dispatch over two or more targets is all-or-nothing: when a call
\* fails no value is ever returned, and the resolution ends with an error
\* naming a target whose call failed, the successful payloads discarded.
C7_AllOrNothing ==
  (Len(targets) >= 2 /\ FailingPositions # {}) =>
    /\ dret.kind # "value"
    /\ dpc = "done" =>
         /\ dret.kind = "error"
         /\ dret.errKind = "Dispatch"
         /\ \E i \in FailingPositions : status[i] = "failed" /\ dret.name = targets[i]
         /\ dret.value = NullT
         /\ dret.handed = <<>>

C7_Witness ==
  /\ dpc = "done"
  /\ Len(targets) = 3
  /\ Cardinality(FailingPositions) = 1
  /\ \A i \in 1..3 : i \notin FailingPositions => status[i] = "ok"
  /\ dret.kind = "error"

\* C8: a selector holding a name that is not configured fails before
\* dispatch: the error names an unknown name of the selector and lists the
\* configured names, and no call is ever issued to any target.
C8_UnknownTargetBeforeDispatch ==
  LET names == NormalizeSelector(selector)
  IN (dpc # "idle" /\ UnknownPositions(names) # {}) =>
       /\ issued = 0
       /\ status = <<>>
       /\ dpc \in {"start", "done"}
       /\ dpc = "done" =>
            /\ dret.kind = "error"
            /\ dret.errKind = "UnknownTarget"
            /\ \E i \in UnknownPositions(names) : dret.name = names[i]
            /\ dret.valid = ConfiguredTargets

C8_Witness ==
  /\ selector = ListSelector(<<"primary", "ghost">>)
  /\ dpc = "done"
  /\ dret.kind = "error"
  /\ issued = 0

PayloadsHandedInTargetOrder ==
  (dpc = "done" /\ dret.kind = "value") => dret.handed = PayloadsInTargetOrder(outcomes)

\* the three classes of a payload: absent, collection, single
Classification(h, x) ==
  IF IsNullish(x) THEN "absent"
  ELSE IF IsArray(h, x) THEN "collection" ELSE "single"

\* C11: any two payloads that are neither null nor an array are compatible:
\* validateResultCompatibility accepts every list of "single" payloads, a
\* record with a scalar or a string with a number included.
C11_SinglePayloadsCompatible ==
  (/\ call.op = "validateResultCompatibility"
   /\ \A i \in 1..Len(resultList) :
        Classification(heap, resultList[i]) = "single") =>
    ret.kind = "ok"

\* C12: the error of validateResultCompatibility names as expected the
\* classification of the first non-absent payload, and identifies the
\* offending payload by its position and that payload's own classification.
C12_ErrorNamesFirstNonAbsent ==
  (call.op = "validateResultCompatibility" /\ ret.kind = "throw") =>
    LET e == ret.err
    IN /\ e.index \in 1..Len(resultList)
       /\ e.got = ResultType(heap, resultList[e.index])
       /\ e.expected = ResultType(heap, FirstNonAbsent(resultList))

\* the declared shape of a field type: array, record or scalar
DeclaredShape(t) ==
  IF DeclaredList(t) THEN "array"
  ELSE IF t.named \in {"object", "interface"} THEN "record" ELSE "scalar"

\* the runtime kind of a non-absent payload
RuntimeKind(h, x) ==
  IF IsArray(h, x) THEN "array"
  ELSE IF IsPlainObject(h, x) THEN "record" ELSE "scalar"

\* C13: when validateResultCompatibility accepts two or more payloads, the
\* runtime kind of every non-absent payload agrees with the declared shape
\* of the field type.
C13_AcceptedAgreesWithDeclaredShape ==
  (/\ call.op = "validateResultCompatibility"
   /\ ret.kind = "ok"
   /\ Len(resultList) >= 2) =>
    \A i \in 1..Len(resultList) :
      ~IsNullish(resultList[i]) =>
        RuntimeKind(heap, resultList[i]) = DeclaredShape(call.fieldType)

\* the number of times a stage occurs in the steps of a result
StepCount(r, stage) == Cardinality({i \in 1..Len(r.steps) : r.steps[i] = stage})

\* the collected payloads fail the compatibility check
CollectedIncompatible ==
  LET a == AllocAll(<<>>, PayloadsInTargetOrder(outcomes), 1, <<>>)
  IN ~validateResultCompatibility(a.h, a.vs, dFieldType).ok

C15_DefaultAndSingleTarget ==
  /\ (selector.kind = "absent" /\ dpc \notin {"idle", "start"}) =>
       /\ targets = <<ConfiguredTargets[1]>>
       /\ dpc \in {"waiting", "done"} => issued = 1 /\ Len(status) = 1
       /\ (dpc = "done" /\ outcomes[1].ok) =>
            /\ dret.kind = "value"
            /\ dret.value = outcomes[1].payload
            /\ dret.steps = <<>>
  /\ (selector.kind = "name" /\ dpc \notin {"idle", "start"}
        /\ selector.names[1] \in ConfiguredNames) =>
       /\ targets = <<selector.names[1]>>
       /\ dpc \in {"waiting", "done"} => issued = 1

C15_Witness ==
  /\ selector.kind = "absent"
  /\ dpc = "done"
  /\ issued = 1
  /\ dret.kind = "value"
  /\ dret.value = Arr(<<R(1, 1)>>)

\* C16: a multi-name selector of configured names resolves to a target list
\* of the same length and order: entry i is the target named by selector
\* entry i, and a name given twice is called twice.
C16_ListOrderAndDuplicatesKept ==
  (/\ selector.kind = "list"
   /\ UnknownPositions(selector.names) = {}
   /\ dpc \notin {"idle", "start"}) =>
    /\ Len(targets) = Len(selector.names)
    /\ \A i \in 1..Len(targets) : targets[i] = selector.names[i]
    /\ dpc \in {"waiting", "done"} =>
         issued = Len(selector.names) /\ Len(status) = Len(selector.names)

C16_Witness ==
  /\ selector = ListSelector(<<"replica", "primary", "replica">>)
  /\ dpc = "waiting"
  /\ issued = 3
  /\ targets = <<"replica", "primary", "replica">>

\* C20: for two or more targets every call is started before any outcome is
\* awaited: once calls are in flight there is exactly one started call per
\* entry of the resolved list, and none waits for another to complete.
C20_AllCallsStartedTogether ==
  (Len(targets) >= 2 /\ dpc \in {"waiting", "done"}) =>
    /\ issued = Len(targets)
    /\ Len(status) = Len(targets)
    /\ \A i \in 1..Len(status) : status[i] \in {"inflight", "ok", "failed"}

C20_Witness ==
  /\ dpc = "waiting"
  /\ Len(targets) = MaxTargets
  /\ issued = MaxTargets
  /\ \A i \in 1..Len(status) : status[i] = "inflight"

\* the "id" of an element, undefined when it is not a record or has none
IdOf(x) == IF IsRef(x) THEN GetProp(heap[x[3]], "id") ELSE UndefV

\* the positions of a sequence of heap values whose "id" is kv
IdOcc(items, kv) == {i \in 1..Len(items) : IdOf(items[i]) = kv}

\* the positions that survive a dedupe by "id": elements without an id and
\* the first occurrence of every id
IdFirsts(all) ==
  {i \in 1..Len(all) : ~IsNullish(IdOf(all[i])) => i = Min(IdOcc(all, IdOf(all[i])))}

\* C17: with the options omitted or empty the merge policy is dedupeKey "id"
\* and preferLatest true: the collection merge keeps one element per "id"
\* at the position of its first occurrence, holding the latest occurrence.
C17_DefaultPolicyInCollectionMerge ==
  (call.op = "mergeArrayResults" /\ call.options = Opts("", "undefined")) =>
    LET all == AllItems
        out == RetCell.e
        firsts == IdFirsts(all)
    IN /\ Len(out) = Cardinality(firsts)
       /\ \A j \in 1..Len(out) :
            LET first == Nth(firsts, j)
            IN IF IsNullish(IdOf(all[first]))
               THEN out[j] = all[first]
               ELSE out[j] = all[Max(IdOcc(all, IdOf(all[first])))]

\* C18: when every one of two or more payloads is null or undefined,
\* mergeResults returns null whatever the declared type is.
C18_AllAbsentMergesToNull ==
  (/\ call.op = "mergeResults"
   /\ Len(resultList) >= 2
   /\ \A i \in 1..Len(resultList) : IsNullish(resultList[i])) =>
    ret.kind = "value" /\ IsNullish(ret.v)

\* the content of a sequence of element trees after a dedupe by "id": the
\* elements without an id, and for every id its last occurrence
DedupContent(es) ==
  {es[i] : i \in {j \in 1..Len(es) :
      TreeIds(<<es[j]>>) = {} \/
        \A k \in (j + 1)..Len(es) : TreeIds(<<es[k]>>) # TreeIds(<<es[j]>>)}}

\* C19: for a list-typed field and a collection X, mergeResults([X, X]) is
\* a sequence with the same deduplicated content as X, which is what
\* mergeResults([X]) returns.
C19_DuplicatedPayloadIdempotent ==
  (/\ call.op = "mergeResults"
   /\ DeclaredList(call.fieldType)
   /\ Len(payloads) = 2
   /\ payloads[1] = payloads[2]
   /\ payloads[1].k = "array") =>
    LET res == Reify(heap, ret.v)
        single == Reify(InitHeap(<<payloads[1]>>).h,
                        mergeResults(InitHeap(<<payloads[1]>>).h,
                                     InitHeap(<<payloads[1]>>).vs,
                                     call.fieldType, call.options).v)
    IN /\ res.k = "array"
       /\ DedupContent(res.e) = DedupContent(single.e)

\* C30: mergeResults returns null when the payload list is empty or is not
\* given, for every declared type and every options value, creating and
\* changing nothing.
C30_EmptyOrMissingIsNull ==
  (\/ call.op = "mergeResultsMissing"
   \/ call.op = "mergeResults" /\ Len(resultList) = 0) =>
    /\ ret = Returned(NullV)
    /\ heap = InitHeap(payloads).h

C30_Witness ==
  /\ call.op = "mergeResults"
  /\ Len(resultList) = 0
  /\ call.fieldType = ListOf(Named("object"))
  /\ call.options = Opts("id", "true")
  /\ ret.kind = "value"

C30_WitnessMissing ==
  /\ call.op = "mergeResultsMissing"
  /\ call.fieldType = Named("scalar")
  /\ ret.kind = "value"

\* the elements of a sequence of heap values that carry no dedupe key
Unkeyed(items) == SelectSeq(items, LAMBDA x : ~Keyed(x))

\* C24: in the collection merge an element without the dedupe key (not an
\* object, or its key absent or null) is never deduplicated: the output
\* holds every such element as often as the input does, in the input's
\* order, each at the place its input position has among the kept ones.
C24_UnkeyedNeverDeduplicated ==
  call.op = "mergeArrayResults" =>
    LET all == AllItems
        out == RetCell.e
        firsts == Firsts(all)
    IN /\ Unkeyed(out) = Unkeyed(all)
       /\ \A i \in 1..Len(all) :
            ~Keyed(all[i]) =>
              LET j == Cardinality({x \in firsts : x <= i})
              IN j <= Len(out) /\ out[j] = all[i]

C24_Witness ==
  /\ call.op = "mergeArrayResults"
  /\ call.options.deduplicateBy = "id"
  /\ LET all == AllItems
     IN \E i, j, k \in 1..Len(all) :
          /\ i < j /\ j < k
          /\ IsRef(all[i]) /\ ~Keyed(all[i])
          /\ Keyed(all[j])
          /\ ~Keyed(all[k])
          /\ Reify(heap, all[i]) = Reify(heap, all[k])

RECURSIVE At(_, _)
\* the value of a tree at a path of field names, null when there is none
At(t, path) ==
  IF path = <<>> THEN t
  ELSE IF t.k = "object" /\ Head(path) \in DOMAIN t.f
       THEN At(t.f[Head(path)], Tail(path))
       ELSE NullT

\* the paths the inputs of the composite merge have values at
Paths ==
  {<<"profile">>, <<"stats">>, <<"stats", "followers">>}
    \cup {<<"profile", x>> : x \in {"name", "bio", "status", "tags"}}

\* the non-absent values the payloads hold at a path, in payload order
Vals(path) ==
  SelectSeq([i \in 1..Len(payloads) |-> At(payloads[i], path)],
            LAMBDA v : v.k # "null")

\* every value the payloads hold above a path is a record, so that the
\* merge descends to the path
RecordsAbove(path) ==
  \A n \in 1..(Len(path) - 1) :
    LET above == Vals(SubSeq(path, 1, n))
    IN \A i \in 1..Len(above) : above[i].k = "object"

\* the merged record as a tree
Merged == Reify(heap, ret.v)

\* the preferLatest the composite merge works with (true when not given)
EffectivePreferLatest == call.options.preferLatest # "false"

\* C25: in the composite merge a scalar leaf overwrites the accumulator
\* when preferLatest is true or the accumulator has no value there, and is
\* dropped otherwise: a field holding only scalars ends as the last
\* non-absent value under preferLatest true and as the first under false.
C25_ScalarLeafPolicy ==
  call.op = "mergeObjectResults" =>
    \A path \in Paths :
      LET vals == Vals(path)
      IN (RecordsAbove(path) /\ vals # <<>>) =>
           /\ (\A i \in 1..Len(vals) : vals[i].k = "scalar") =>
                At(Merged, path) =
                  IF EffectivePreferLatest THEN vals[Len(vals)] ELSE vals[1]
           /\ (EffectivePreferLatest /\ vals[Len(vals)].k = "scalar") =>
                At(Merged, path) = vals[Len(vals)]
           /\ (~EffectivePreferLatest /\ vals[Len(vals)].k = "scalar" /\ Len(vals) > 1) =>
                At(Merged, path) # vals[Len(vals)]
                  \/ \E i \in 1..(Len(vals) - 1) : vals[i] = vals[Len(vals)]

C25_Witness ==
  /\ call.op = "mergeObjectResults"
  /\ call.options.preferLatest = "false"
  /\ payloads = <<Obj("profile" :> Str(1)), Obj("profile" :> NullT), Obj("profile" :> Str(2))>>
  /\ At(Merged, <<"profile">>) = Str(1)

\* the paths at which the inputs hold nested records
RecordPaths == {<<"profile">>, <<"stats">>}

\* the field names of the records of a sequence of trees
FieldNames(vals) == UNION {DOMAIN vals[i].f : i \in 1..Len(vals)}

\* what the accumulator holds at a field before the last of two or more
\* values arrives, where the values before it leave that beyond doubt: an
\* array just stored, a scalar just stored, or the first of only scalars
HoldsBeforeLast(vals) ==
  LET before == vals[Len(vals) - 1]
  IN IF before.k = "array" THEN "array"
     ELSE IF before.k = "scalar" /\ EffectivePreferLatest THEN "scalar"
     ELSE IF \A i \in 1..(Len(vals) - 1) : vals[i].k = "scalar" THEN "scalar"
     ELSE "other"

\* C26: in the composite merge a nested record met where the accumulator
\* holds a record is merged into it field by field (fields only the
\* earlier record has are preserved, fields only the later one has are
\* added); met where the accumulator holds anything else, it overwrites.
C26_NestedRecordsMergedRecursively ==
  call.op = "mergeObjectResults" =>
    /\ \A path \in RecordPaths :
         LET vals == Vals(path)
             at == At(Merged, path)
         IN /\ (vals # <<>> /\ \A i \in 1..Len(vals) : vals[i].k = "object") =>
                 /\ at.k = "object"
                 /\ DOMAIN at.f \subseteq FieldNames(vals)
                 /\ \A key \in FieldNames(vals) :
                      LET kv == Vals(Append(path, key))
                      IN /\ kv # <<>> => At(at, <<key>>).k # "null"
                         /\ Len(kv) = 1 => At(at, <<key>>) = kv[1]
            /\ (/\ Len(vals) >= 2
                /\ vals[Len(vals)].k = "object"
                /\ HoldsBeforeLast(vals) \in {"array", "scalar"}) =>
                 at = vals[Len(vals)]
    /\ payloads = <<OA, OB>> =>
         Merged = Obj("profile" :> Obj("name" :> Str(1) @@ "bio" :> Str(2)
                                       @@ "status" :> Str(3))
                      @@ "stats" :> Obj("followers" :> Num(1)))

C26_Witness ==
  /\ call.op = "mergeObjectResults"
  /\ Len(payloads) = 3
  /\ payloads[2] = OA
  /\ payloads[3] = OB
  /\ payloads[1] = Obj("profile" :> Str(2))
  /\ At(Merged, <<"profile", "bio">>) = Str(2)
  /\ At(Merged, <<"profile", "status">>) = Str(3)

\* the paths at which the inputs hold sequences
SequencePaths == {<<"profile">>, <<"profile", "tags">>}

RECURSIVE HeldKind(_, _)
\* the kind of value the accumulator holds at a field once the first n of
\* the field's non-absent values have been folded in
HeldKind(vals, n) ==
  IF n = 0 THEN "none"
  ELSE IF vals[n].k \in {"array", "object"} THEN vals[n].k
  ELSE IF EffectivePreferLatest \/ HeldKind(vals, n - 1) = "none" THEN "scalar"
  ELSE HeldKind(vals, n - 1)

RECURSIVE HeldElems(_, _)
\* the elements of the sequence the accumulator holds after n values:
\* appended to a sequence already there, replacing anything else
HeldElems(vals, n) ==
  IF n = 0 THEN <<>>
  ELSE IF vals[n].k = "array"
       THEN (IF HeldKind(vals, n - 1) = "array" THEN HeldElems(vals, n - 1) ELSE <<>>)
              \o vals[n].e
       ELSE HeldElems(vals, n - 1)

\* C27: in the composite merge a sequence met where the accumulator holds
\* a sequence is appended to it without deduplication (the length is the
\* sum, duplicates by id stay); met where the accumulator holds no
\* sequence, it replaces whatever was there.
C27_NestedSequencesConcatenated ==
  call.op = "mergeObjectResults" =>
    \A path \in SequencePaths :
      LET vals == Vals(path)
          at == At(Merged, path)
      IN (RecordsAbove(path) /\ vals # <<>>) =>
           /\ HeldKind(vals, Len(vals)) = "array" =>
                at.k = "array" /\ at.e = HeldElems(vals, Len(vals))
           /\ (\A i \in 1..Len(vals) : vals[i].k = "array") =>
                /\ at.k = "array"
                /\ Len(at.e) = Len(FlatTrees(vals, 1))
                /\ at.e = FlatTrees(vals, 1)
           /\ (/\ Len(vals) >= 2
               /\ vals[Len(vals)].k = "array"
               /\ HoldsBeforeLast(vals) = "scalar" \/ vals[Len(vals) - 1].k = "object") =>
                at = vals[Len(vals)]

C27_Witness ==
  /\ call.op = "mergeObjectResults"
  /\ payloads = <<Obj("profile" :> Arr(<<R(1, 1)>>)),
                  Obj("profile" :> Arr(<<R(1, 2), R(2, 1)>>)),
                  Obj("profile" :> Arr(<<R(1, 1)>>))>>
  /\ Len(At(Merged, <<"profile">>).e) = 4

RECURSIVE StripNulls(_)
\* a tree without its null fields, at every depth of nested records
StripNulls(t) ==
  IF t.k = "object"
  THEN Obj([key \in {x \in DOMAIN t.f : t.f[x].k # "null"} |-> StripNulls(t.f[key])])
  ELSE t

\* the payloads without the null payloads and without any null field
StrippedPayloads ==
  LET present == SelectSeq(payloads, LAMBDA t : t.k # "null")
  IN [i \in 1..Len(present) |-> StripNulls(present[i])]

\* what the composite merge returns on a list of payload trees
MergedOf(ts) ==
  LET a == InitHeap(ts)
      m == mergeObjectResults(a.h, a.vs, call.options)
  IN Reify(m.h, m.v)

\* C28: in the composite merge a field that is absent or null in an
\* incoming payload is skipped, at every depth and for either setting of
\* preferLatest: a value held at a field is never removed or nulled, and
\* the merged content is what the payloads give with their null fields
\* and the null payloads left out.
C28_AbsentFieldsSkipped ==
  call.op = "mergeObjectResults" =>
    /\ \A path \in Paths :
         (RecordsAbove(path) /\ Vals(path) # <<>>) => At(Merged, path).k # "null"
    /\ StripNulls(Merged) = StripNulls(MergedOf(StrippedPayloads))

C28_Witness ==
  /\ call.op = "mergeObjectResults"
  /\ call.options.preferLatest = "true"
  /\ payloads = <<Obj("profile" :> OA.f["profile"]),
                  Obj("profile" :> Obj("name" :> NullT @@ "bio" :> Str(3))),
                  Obj("profile" :> NullT)>>
  /\ Merged = Obj("profile" :> Obj("name" :> Str(1) @@ "bio" :> Str(3)))

\* the endpoints list the loader was configured with
Configured == loaderOptions.endpoints.list

\* the extension of the schema the loader returned
MultiInstance == schema.multiInstanceEndpoints

\* the names of a list of endpoint configurations
NamesOf(list) == {list[i].name : i \in 1..Len(list)}

\* C22: the loader attaches the multiInstanceEndpoints extension if and
\* only if the endpoints option is a non-empty list: with a single endpoint
\* string only, or an empty endpoints array, the schema is returned as the
\* base loader built it, without the extension.
C22_ExtensionIffNonEmptyEndpoints ==
  lpc = "done" =>
    /\ MultiInstance.present <=> (loaderOptions.endpoints.given /\ Len(Configured) > 0)
    /\ ~(loaderOptions.endpoints.given /\ Len(Configured) > 0) => schema = baseSchema
    /\ schema.others = baseSchema.others

C22_Witness ==
  /\ lpc = "done"
  /\ loaderOptions.endpoint = "https://api"
  /\ loaderOptions.endpoints.given
  /\ Configured = <<>>
  /\ ~MultiInstance.present

\* every configured endpoint is listed and mapped
EveryEndpointListed ==
  /\ Len(MultiInstance.endpoints) = Len(Configured)
  /\ \A i \in 1..Len(Configured) :
       /\ \E j \in 1..Len(MultiInstance.endpoints) : MultiInstance.endpoints[j] = Configured[i]
       /\ Configured[i].name \in DOMAIN MultiInstance.endpointMap
       /\ MultiInstance.endpointMap[Configured[i].name] = Configured[i].endpoint
  /\ DOMAIN MultiInstance.endpointMap = NamesOf(Configured)

\* C23 as stated: an attached extension lists as many entries as were
\* configured, one {name, endpoint} pair per configured endpoint, and its
\* endpointMap maps every configured name to that endpoint's address, with
\* no other keys.
C23_ExtensionListsEveryEndpoint ==
  (lpc = "done" /\ MultiInstance.present) => EveryEndpointListed

\* C23 amended: the same, for configured endpoints whose names are pairwise
\* distinct.
C23_DistinctNamesAllListed ==
  (/\ lpc = "done"
   /\ MultiInstance.present
   /\ Cardinality(NamesOf(Configured)) = Len(Configured)) => EveryEndpointListed

C23_Witness ==
  /\ lpc = "done"
  /\ MultiInstance.present
  /\ Configured = <<Endpoint("ALPHA", "https://alpha"), Endpoint("BETA", "https://beta"),
                    Endpoint("GAMMA", "https://alpha")>>
  /\ MultiInstance.endpoints = Configured

\* the positions of a configured list at which a name occurs first
FirstOccurrences(list) ==
  {i \in 1..Len(list) : \A j \in 1..(i - 1) : list[j].name # list[i].name}

\* the last position of a configured list that carries a name
LastOccurrence(list, name) == Max({i \in 1..Len(list) : list[i].name = name})

\* C29: in the extension the names of endpoints are pairwise distinct and
\* endpoints and endpointMap agree (the same names, and endpointMap[e.name]
\* is e.endpoint for every entry e), also when a name is configured more
\* than once: it appears once, at the position of its first occurrence,
\* with the address of its last occurrence.
C29_EndpointsAndMapAgree ==
  (lpc = "done" /\ MultiInstance.present) =>
    LET list == MultiInstance.endpoints
        firsts == FirstOccurrences(Configured)
    IN /\ \A i, j \in 1..Len(list) : list[i].name = list[j].name => i = j
       /\ NamesOf(list) = DOMAIN MultiInstance.endpointMap
       /\ NamesOf(list) = NamesOf(Configured)
       /\ \A i \in 1..Len(list) : MultiInstance.endpointMap[list[i].name] = list[i].endpoint
       /\ Len(list) = Cardinality(firsts)
       /\ \A j \in 1..Len(list) :
            /\ list[j].name = Configured[Nth(firsts, j)].name
            /\ list[j].endpoint = Configured[LastOccurrence(Configured, list[j].name)].endpoint

C29_Witness ==
  /\ lpc = "done"
  /\ Configured = <<Endpoint("BETA", "https://alpha"), Endpoint("ALPHA", "https://alpha"),
                    Endpoint("BETA", "https://beta")>>
  /\ MultiInstance.endpoints =
       <<Endpoint("BETA", "https://beta"), Endpoint("ALPHA", "https://alpha")>>

\* C21: one shared deadline governs a whole multi-target dispatch. It is
\* armed once and not restarted by a completing call, so the dispatch never
\* waits longer than the caller's deadline; when it elapses before every
\* call has completed the resolution ends with a TimeoutError: no merged
\* result, no validation or merge step run, every call that was still in
\* flight abandoned, and no call issued a second time. A value is returned
\* only when every call completed.
C21_SharedDeadline ==
  /\ (dpc = "waiting" /\ Len(targets) >= 2) => (timer = deadline /\ now <= deadline)
  /\ issued <= Len(targets)
  /\ \A i \in 1..Len(status) : status[i] = "abandoned" => dret = TimeoutError
  /\ dret.errKind = "Timeout" =>
       /\ dpc = "done"
       /\ dret.kind = "error"
       /\ dret.value = NullT
       /\ dret.steps = <<>>
       /\ dret.handed = <<>>
       /\ now = deadline
       /\ Len(targets) >= 2
       /\ issued = Len(targets)
       /\ \E i \in 1..Len(status) : status[i] = "abandoned"
       /\ \A i \in 1..Len(status) : status[i] # "inflight"
  /\ (dpc = "done" /\ dret.kind = "value") =>
       \A i \in 1..Len(status) : status[i] = "ok"

C21_Witness ==
  /\ dpc = "done"
  /\ dret = TimeoutError
  /\ deadline = MaxDeadline
  /\ now = deadline
  /\ Len(targets) >= 2
  /\ status[1] = "abandoned"
  /\ \E i \in 1..Len(status) : status[i] = "ok"

====
